---- MODULE Spec2Model ----
(***************************************************************************)
(* FDCleaner (Data_cleaning/dataCleaning.py): the column-name normaliser   *)
(* run by the constructor and the 8-step clean_data pipeline, as a state   *)
(* machine over an in-memory table.                                        *)
(*                                                                         *)
(* A text (a column name or a string cell) is a sequence of one-character  *)
(* strings.  A cell is a record [k, s, n]: a string (k = "str", s its      *)
(* text), a float (k = "num", n its value in thousandths) or a missing     *)
(* value NaN/None (k = "na").  A column is [name, dtype, vals]; the rows   *)
(* of the table are the positions of the vals, labelled by index.          *)
(***************************************************************************)
EXTENDS Integers, Sequences, FiniteSets

VARIABLES
    pc,               \* position in FDCleaner: "new", "s1" .. "s8", "done", "error"
    run,              \* 1: the first cleaner, 2: a fresh cleaner on its output
    cols,             \* self.df: the sequence of columns
    index,            \* self.df.index: the labels of the rows still in the table
    original_columns, \* self.original_columns
    modified_cols,    \* self.modified_cols
    removed_cols,     \* self.removed_cols
    dup_removed,      \* initial_rows - len(self.df), as logged by step 1
    text_cols,        \* text_cols of step 3 (read again by step 4)
    cat_cols,         \* the columns of cat_cols step 4 has still to visit
    unique_vals,      \* unique_vals of the column step 4 is visiting
    vi,               \* position of the for-loop over unique_vals
    changes,          \* changes of the column step 4 is visiting
    processed,        \* processed of the column step 4 is visiting
    matches,          \* [m[0] for m in matches] of the last loop iteration
    standard,         \* standard of the last cluster
    fixed_cols,       \* fixed_cols of step 4
    sim,              \* the scorer behind process.extractBests
    input,            \* the table the current cleaner was constructed on
    at4,              \* the columns as step 4 found them
    at6,              \* the columns as step 6 found them
    looped            \* the columns whose values step 4 ran the fuzzy loop over

vars == <<pc, run, cols, index, original_columns, modified_cols, removed_cols,
          dup_removed, text_cols, cat_cols, unique_vals, vi, changes, processed,
          matches, standard, fixed_cols, sim, input, at4, at6, looped>>

----------------------------------------------------------------------------
(* Sequences.                                                              *)

Range(s) == {s[i] : i \in DOMAIN s}

Distinct(s) == \A i, j \in DOMAIN s : i # j => s[i] # s[j]

\* The elements of s at the positions K, in order.
Keep(s, K) ==
    [i \in 1..Cardinality(K) |-> s[CHOOSE p \in K : Cardinality({q \in K : q <= p}) = i]]

\* The distinct elements of s in first-seen order (dict keys, Series.unique).
Uniq(s) == Keep(s, {p \in DOMAIN s : \A q \in 1..(p - 1) : s[q] # s[p]})

RECURSIVE SeqsUpTo(_, _)
\* Every sequence over S of length at most n.
SeqsUpTo(S, n) ==
    IF n = 0 THEN {<<>>}
    ELSE LET shorter == SeqsUpTo(S, n - 1)
         IN shorter \cup {Append(s, x) : s \in {t \in shorter : Len(t) = n - 1}, x \in S}

----------------------------------------------------------------------------
(* Texts: str.lower, str.strip and the two re.sub calls.                   *)

Upper == {"A", "B", "C", "D", "N", "Y"}
LowerOf == [c \in Upper |->
              CASE c = "A" -> "a" [] c = "B" -> "b" [] c = "C" -> "c"
                [] c = "D" -> "d" [] c = "N" -> "n" [] c = "Y" -> "y"]
Digits == <<"0", "1", "2", "3", "4", "5", "6", "7", "8", "9">>
Letters == {"a", "b", "c", "d", "e", "i", "l", "m", "n", "t", "u", "w", "x", "y"}

IsSpace(c) == c = " "
\* \w of a str pattern, over the ASCII characters of the model.
IsWord(c) == c \in Letters \/ c \in Upper \/ c \in Range(Digits) \/ c = "_"

LowerChar(c) == IF c \in Upper THEN LowerOf[c] ELSE c
Lower(s) == [i \in DOMAIN s |-> LowerChar(s[i])]

RECURSIVE LStrip(_)
LStrip(s) == IF s # <<>> /\ IsSpace(s[1]) THEN LStrip(Tail(s)) ELSE s
RECURSIVE RStrip(_)
RStrip(s) ==
    IF s # <<>> /\ IsSpace(s[Len(s)]) THEN RStrip(SubSeq(s, 1, Len(s) - 1)) ELSE s
Strip(s) == RStrip(LStrip(s))

RECURSIVE SpaceRunsToUnderscore(_)
\* re.sub(r'\s+', '_', s)
SpaceRunsToUnderscore(s) ==
    IF s = <<>> THEN <<>>
    ELSE IF IsSpace(s[1]) THEN <<"_">> \o SpaceRunsToUnderscore(LStrip(s))
    ELSE <<s[1]>> \o SpaceRunsToUnderscore(Tail(s))

\* re.sub(r'[^\w\d_]', '', s)
DropSpecial(s) == SelectSeq(s, IsWord)

RECURSIVE Str(_)
\* str(n) of a natural number.
Str(n) == IF n < 10 THEN <<Digits[n + 1]>> ELSE Str(n \div 10) \o <<Digits[(n % 10) + 1]>>

\* s occurs in t (Python's `s in t`).
Contains(t, s) ==
    \E i \in 0..(Len(t) - Len(s)) : SubSeq(t, i + 1, i + Len(s)) = s

----------------------------------------------------------------------------
(* standardize_column_names.                                               *)

\* Lines 73-76: the canonical form of one raw name.
Canon(col) == DropSpecial(SpaceRunsToUnderscore(Strip(Lower(col))))

\* Lines 69-78: rename_dict, one entry per distinct raw name.
RenameDict0(names) == [col \in Range(names) |-> Canon(col)]

RECURSIVE Dedupe(_, _, _)
\* Lines 81-87: the loop over rename_dict.items(), in insertion order;
\* seen maps a canonical name to the suffix its next collision gets.
Dedupe(keys, rd, seen) ==
    IF keys = <<>> THEN rd
    ELSE LET old == keys[1]
             new == rd[old]
         IN IF new \in DOMAIN seen
            THEN Dedupe(Tail(keys),
                        [rd EXCEPT ![old] = new \o <<"_">> \o Str(seen[new])],
                        [seen EXCEPT ![new] = @ + 1])
            ELSE Dedupe(Tail(keys), rd,
                        [k \in DOMAIN seen \cup {new} |->
                            IF k = new THEN 1 ELSE seen[k]])

EmptyMap == [k \in {} |-> 0]

RenameDict(names) == Dedupe(Uniq(names), RenameDict0(names), EmptyMap)

\* Line 90: df.rename(columns=rename_dict) renames every column by its raw name.
StandardizeNames(names) ==
    LET rd == RenameDict(names) IN [i \in DOMAIN names |-> rd[names[i]]]

----------------------------------------------------------------------------
(* Cells.                                                                  *)

Txt(s) == [k |-> "str", s |-> s, n |-> 0]
Num(n) == [k |-> "num", s |-> <<>>, n |-> n]
\* An integer of an int64 column, in thousandths like the floats; 1 of an
\* int64 column and 1.0 of a float64 column are values of different types.
Whole(n) == [k |-> "int", s |-> <<>>, n |-> n]
NA == [k |-> "na", s |-> <<>>, n |-> 0]
\* The placeholder "null" of step 2.
NULL == Txt(<<"n", "u", "l", "l">>)

IsStr(v) == v.k = "str"
IsNA(v) == v.k = "na"
IsInt(v) == v.k = "int"

\* Series.round(2) of a float held in thousandths: numpy rounds x * 100 to the
\* nearest integer, a tie to the even one.
Round2(n) ==
    LET q == n \div 10
        r == n % 10
    IN IF r < 5 THEN q * 10
       ELSE IF r > 5 THEN (q + 1) * 10
       ELSE IF q % 2 = 0 THEN q * 10 ELSE (q + 1) * 10

----------------------------------------------------------------------------
(* pd.to_datetime(errors='coerce') and strftime('%Y-%m-%d'), over two      *)
(* written forms of a date: YYYY-MM-DD and MM/DD/YYYY (DD/MM/YYYY when the *)
(* first field cannot be a month).                                         *)

NaT == [y |-> 0, m |-> 0, d |-> 0]
Epoch == [y |-> 1970, m |-> 1, d |-> 1]

IsDigit(c) == c \in Range(Digits)
DigitVal(c) == (CHOOSE i \in DOMAIN Digits : Digits[i] = c) - 1

RECURSIVE NumVal(_)
NumVal(s) == IF s = <<>> THEN 0 ELSE NumVal(SubSeq(s, 1, Len(s) - 1)) * 10 + DigitVal(s[Len(s)])

AllDigits(s) == \A i \in DOMAIN s : IsDigit(s[i])

IsLeap(y) == y % 4 = 0 /\ (y % 100 # 0 \/ y % 400 = 0)
DaysIn(y, m) ==
    IF m = 2 THEN (IF IsLeap(y) THEN 29 ELSE 28)
    ELSE IF m \in {4, 6, 9, 11} THEN 30 ELSE 31

\* A Timestamp holds the years 1678 to 2261 in full.
ValidDate(y, m, d) ==
    /\ y >= 1678 /\ y <= 2261
    /\ m >= 1 /\ m <= 12
    /\ d >= 1 /\ d <= DaysIn(y, m)

MkDate(y, m, d) == IF ValidDate(y, m, d) THEN [y |-> y, m |-> m, d |-> d] ELSE NaT

ParseDate(s) ==
    IF Len(s) # 10 THEN NaT
    ELSE IF s[5] = "-" /\ s[8] = "-" /\ AllDigits(SubSeq(s, 1, 4))
            /\ AllDigits(SubSeq(s, 6, 7)) /\ AllDigits(SubSeq(s, 9, 10))
    THEN MkDate(NumVal(SubSeq(s, 1, 4)), NumVal(SubSeq(s, 6, 7)), NumVal(SubSeq(s, 9, 10)))
    ELSE IF s[3] = "/" /\ s[6] = "/" /\ AllDigits(SubSeq(s, 1, 2))
            /\ AllDigits(SubSeq(s, 4, 5)) /\ AllDigits(SubSeq(s, 7, 10))
    THEN LET a == NumVal(SubSeq(s, 1, 2))
             b == NumVal(SubSeq(s, 4, 5))
             y == NumVal(SubSeq(s, 7, 10))
         IN IF a > 12 THEN MkDate(y, b, a) ELSE MkDate(y, a, b)
    ELSE NaT

\* A number is read as nanoseconds since the epoch: the floats of the model
\* all fall on 1970-01-01.
ToDatetime(v) ==
    IF IsNA(v) THEN NaT
    ELSE IF v.k = "num" THEN Epoch
    ELSE ParseDate(v.s)

Pad(n, width) ==
    LET t == Str(n) IN [i \in 1..(width - Len(t)) |-> "0"] \o t

Strftime(dt) == Pad(dt.y, 4) \o <<"-">> \o Pad(dt.m, 2) \o <<"-">> \o Pad(dt.d, 2)

----------------------------------------------------------------------------
(* The table.                                                              *)

Col(name, dtype, vals) == [name |-> name, dtype |-> dtype, vals |-> vals]

Names(cs) == [i \in DOMAIN cs |-> cs[i].name]

\* self.df[name], the names being distinct.
ByName(cs, name) == cs[CHOOSE i \in DOMAIN cs : cs[i].name = name]

Row(cs, p) == [c \in DOMAIN cs |-> cs[c].vals[p]]

\* The dtype read_csv infers: float64 for a column of numbers and blanks,
\* object for one that holds a string and for a table without rows.
InferDtype(vals) ==
    IF vals = <<>> THEN "object"
    ELSE IF \A i \in DOMAIN vals : IsInt(vals[i]) THEN "int"
    ELSE IF \A i \in DOMAIN vals : ~IsStr(vals[i]) THEN "float"
    ELSE "object"

HasNA(col) == \E i \in DOMAIN col.vals : IsNA(col.vals[i])

\* Series.nunique(): the distinct values, missing ones left out.
NUnique(col) == Cardinality({v \in Range(col.vals) : ~IsNA(v)})

\* Series.value_counts()[v]
Count(col, v) == Cardinality({i \in DOMAIN col.vals : col.vals[i] = v})

----------------------------------------------------------------------------
(* Step 1: DataFrame.drop_duplicates(), keep='first'.                      *)

\* DataFrame.duplicated(): a row is a duplicate when an earlier row holds the
\* same value in every column (two missing values count as the same).
Duplicated(cs, n) == {p \in 1..n : Row(cs, p) \in {Row(cs, q) : q \in 1..(p - 1)}}

\* keep='last' in place of keep='first'.
DropDuplicatesKeepLast(cs, n) ==
    {p \in 1..n : Row(cs, p) \notin {Row(cs, q) : q \in (p + 1)..n}}

\* The positions drop_duplicates keeps.
DropDuplicates(cs, n) == (1..n) \ Duplicated(cs, n)

----------------------------------------------------------------------------
(* Step 2: fill the missing values with "null".                            *)

FillNA(vals) == [i \in DOMAIN vals |-> IF IsNA(vals[i]) THEN NULL ELSE vals[i]]

\* Lines 114-126 for one column: a numeric column is cast to object first.
FillColumn(col) ==
    IF HasNA(col) THEN Col(col.name, "object", FillNA(col.vals)) ELSE col

\* Line 114 raises ValueError for a name that two columns carry: df[col] is
\* then a DataFrame and the truth value of isna().any() is ambiguous.
Ambiguous(cs, i) == \E j \in DOMAIN cs : j # i /\ cs[j].name = cs[i].name

\* The columns the loop of step 2 gets through before it raises (all of them
\* when it does not).
FillUpTo(cs) ==
    IF \E i \in DOMAIN cs : Ambiguous(cs, i)
    THEN (CHOOSE i \in DOMAIN cs : Ambiguous(cs, i) /\ \A j \in 1..(i - 1) : ~Ambiguous(cs, j)) - 1
    ELSE Len(cs)

\* A cleaner that drops a column with nothing but missing values.
FillMissingOrDrop(cs) ==
    LET kept == SelectSeq(cs, LAMBDA c : \E i \in DOMAIN c.vals : ~IsNA(c.vals[i]))
    IN [i \in DOMAIN kept |-> FillColumn(kept[i])]

FillMissing(cs) ==
    [i \in DOMAIN cs |-> IF i <= FillUpTo(cs) THEN FillColumn(cs[i]) ELSE cs[i]]

----------------------------------------------------------------------------
(* Step 3: standardize formats.                                            *)

\* Line 142: the lambda applied to every cell of a text column.
TextNorm(v) == IF IsStr(v) /\ v # NULL THEN Txt(Strip(Lower(v.s))) ELSE v

\* Line 136: select_dtypes(include=['object']).columns
TextCols(cs) == SelectSeq(Names(cs), LAMBDA nm : ByName(cs, nm).dtype = "object")

\* Lines 137-144.
NormText(cs, n) ==
    [i \in DOMAIN cs |->
        IF cs[i].dtype = "object" /\ n > 0
        THEN Col(cs[i].name, "object", [p \in DOMAIN cs[i].vals |-> TextNorm(cs[i].vals[p])])
        ELSE cs[i]]

\* Lines 147-148.
IsDateName(nm) ==
    LET l == Lower(nm)
    IN \/ Contains(l, <<"d", "a", "t", "e">>)
       \/ Contains(l, <<"t", "i", "m", "e">>)
       \/ Contains(l, <<"_", "a", "t">>)

Parsed(col) == {p \in DOMAIN col.vals : ToDatetime(col.vals[p]) # NaT}

\* Line 153: temp_col.notna().mean() > 0.8, the mean taken over every row.
MostlyDates(col) == 5 * Cardinality(Parsed(col)) > 4 * Len(col.vals)

\* Lines 152-157 for one column; writing strings into a float column makes
\* it an object column.
FormatDates(col) ==
    IF MostlyDates(col)
    THEN Col(col.name, "object",
             [p \in DOMAIN col.vals |->
                 IF p \in Parsed(col) THEN Txt(Strftime(ToDatetime(col.vals[p])))
                 ELSE col.vals[p]])
    ELSE col

\* Lines 147-159.
NormDates(cs) ==
    [i \in DOMAIN cs |-> IF IsDateName(cs[i].name) THEN FormatDates(cs[i]) ELSE cs[i]]

\* Lines 162-164: select_dtypes(include=['float']) and round(2).
RoundFloats(cs) ==
    [i \in DOMAIN cs |->
        IF cs[i].dtype = "float"
        THEN Col(cs[i].name, "float",
                 [p \in DOMAIN cs[i].vals |->
                     IF cs[i].vals[p].k = "num" THEN Num(Round2(cs[i].vals[p].n))
                     ELSE cs[i].vals[p]])
        ELSE cs[i]]

----------------------------------------------------------------------------
(* Step 4: fix inconsistent values.                                        *)

\* nunique() must lie strictly between these for a column to be categorical.
CatMin == 1
CatMax == 50
\* score_cutoff of line 192 and the default limit of process.extractBests.
ScoreCutoff == 85
MatchLimit == 5

\* Line 170: the band is on nunique(), which counts every distinct value of
\* the column that is not missing, "null" included.
IsCategorical(col) == CatMin < NUnique(col) /\ NUnique(col) < CatMax

SelectCategorical(cs, tcols) == SelectSeq(tcols, LAMBDA nm : IsCategorical(ByName(cs, nm)))

\* Lines 175-176: the distinct strings of the column other than "null", in
\* first-seen order.
UniqueVals(col) == SelectSeq(Uniq(col.vals), LAMBDA v : v # NULL /\ IsStr(v))

\* The scorer: 100 for a string against itself, symmetric, and below the
\* cutoff for every pair sim does not list.
Score(a, b) ==
    IF a = b THEN 100
    ELSE IF {a.s, b.s} \in DOMAIN sim THEN sim[{a.s, b.s}] ELSE 0

RECURSIVE BestFirst(_, _)
\* sorted(..., key=score, reverse=True): the best score first, equal scores in
\* the order of the choices.
BestFirst(val, cand) ==
    IF cand = <<>> THEN <<>>
    ELSE LET i == CHOOSE i \in DOMAIN cand :
                    /\ \A j \in DOMAIN cand : Score(val, cand[j]) <= Score(val, cand[i])
                    /\ \A j \in 1..(i - 1) : Score(val, cand[j]) < Score(val, cand[i])
             rest == [j \in 1..(Len(cand) - 1) |-> IF j < i THEN cand[j] ELSE cand[j + 1]]
         IN <<cand[i]>> \o BestFirst(val, rest)

\* Lines 190-192 and 195: process.extractBests(val, unique_vals, score_cutoff=85),
\* the choices without their scores.
ExtractBests(val, uvals) ==
    LET above == SelectSeq(uvals, LAMBDA v : Score(val, v) >= ScoreCutoff)
        best == BestFirst(val, above)
    IN SubSeq(best, 1, IF Len(best) < MatchLimit THEN Len(best) ELSE MatchLimit)

\* similar[0] whatever the counts are.
FirstOfSimilar(col, similar) == similar[1]

\* Line 199: counts.loc[similar].idxmax(), the first of similar with the
\* highest count.
IdxMax(col, similar) ==
    similar[CHOOSE i \in DOMAIN similar :
               /\ \A j \in DOMAIN similar : Count(col, similar[j]) <= Count(col, similar[i])
               /\ \A j \in 1..(i - 1) : Count(col, similar[j]) < Count(col, similar[i])]

\* Lines 204-207: the members of the cluster other than standard map to it.
MapTo(chg, similar, std) ==
    [v \in DOMAIN chg \cup (Range(similar) \ {std}) |->
        IF v \in Range(similar) THEN std ELSE chg[v]]

\* Line 212: Series.replace(changes) rewrites a cell that equals a key, once.
Replace(col, chg) ==
    Col(col.name, col.dtype,
        [p \in DOMAIN col.vals |->
            IF col.vals[p] \in DOMAIN chg THEN chg[col.vals[p]] ELSE col.vals[p]])

----------------------------------------------------------------------------
(* Step 6: remove redundant columns.                                       *)

\* Series.equals: the same dtype and the same values.
Equals(c1, c2) == c1.dtype = c2.dtype /\ c1.vals = c2.vals

RECURSIVE RedundantScan(_, _, _, _)
\* Lines 235-241: the pairs (i, j), i < j, in order; drop is cols_to_drop.
RedundantScan(cs, i, j, drop) ==
    IF i > Len(cs) THEN drop
    ELSE IF j > Len(cs) THEN RedundantScan(cs, i + 1, i + 2, drop)
    ELSE IF /\ cs[i].name \notin Range(drop)
            /\ cs[j].name \notin Range(drop)
            /\ Equals(cs[i], cs[j])
         THEN RedundantScan(cs, i, j + 1, Append(drop, cs[j].name))
         ELSE RedundantScan(cs, i, j + 1, drop)

RECURSIVE RedundantScanEarlier(_, _, _, _)
\* cols_to_drop.append(col1) in place of col2.
RedundantScanEarlier(cs, i, j, drop) ==
    IF i > Len(cs) THEN drop
    ELSE IF j > Len(cs) THEN RedundantScanEarlier(cs, i + 1, i + 2, drop)
    ELSE IF /\ cs[i].name \notin Range(drop)
            /\ cs[j].name \notin Range(drop)
            /\ Equals(cs[i], cs[j])
         THEN RedundantScanEarlier(cs, i, j + 1, Append(drop, cs[i].name))
         ELSE RedundantScanEarlier(cs, i, j + 1, drop)

ColsToDropEarlier(cs) == RedundantScanEarlier(cs, 1, 2, <<>>)

ColsToDrop(cs) == RedundantScan(cs, 1, 2, <<>>)

\* Line 249: df.drop(columns=cols_to_drop)
DropCols(cs, drop) == SelectSeq(cs, LAMBDA c : c.name \notin Range(drop))

----------------------------------------------------------------------------
(* The tables the cleaner is constructed on.                               *)

MaxRows == 3       \* rows of the two-column tables
MaxDupRows == 2    \* rows of the tables of three comparable columns
MaxDateRows == 6   \* rows of the tables with a date column
MaxCatRows == 5    \* rows of the tables with a categorical column
MaxNames == 3      \* raw column names given to the constructor

\* A table as read_csv delivers it: the columns of the given rows.
FromRows(names, rows) ==
    [c \in DOMAIN names |->
        LET vals == [p \in DOMAIN rows |-> rows[p][c]]
        IN Col(names[c], InferDtype(vals), vals)]

\* A row-number column: no two rows of the table are duplicates.
Numbered(names, vals) ==
    FromRows(names, [p \in DOMAIN vals |-> <<vals[p], Num(1000 * p)>>])

\* The string "x" * i.
XS(i) == Txt([j \in 1..i |-> "x"])

A1 == Txt(<<"A">>)
A2 == Txt(<<"a", " ">>)
CatA == Txt(<<"a">>)
CatB == Txt(<<"b">>)
CatC == Txt(<<"c">>)
ADate == Txt(<<"0", "1", "/", "0", "5", "/", "2", "0", "2", "0">>)
NotADate == Txt(<<"a">>)

NameT == <<"t">>
NameX == <<"x">>
NameY == <<"y">>
NameN == <<"n">>
NameDate == <<"d", "a", "t", "e">>
NameCity == <<"c", "i", "t", "y">>

\* A text column and a float column, either with missing values.
MixedTables ==
    {FromRows(<<NameT, NameX>>, rows) :
        rows \in SeqsUpTo({A1, A2, NA} \X {Num(1005), NA}, MaxRows)}

\* Two columns that the constructor left with one name.
SameNameTables ==
    {FromRows(<<NameT, NameT>>, rows) : rows \in SeqsUpTo({A1, NA} \X {A1, NA}, MaxRows)}

\* Three text columns, equal or equal once lowercased.
TextTriples ==
    {FromRows(<<NameT, NameX, NameY>>, rows) :
        rows \in SeqsUpTo({A1, CatA} \X {A1, CatA} \X {A1, CatA}, MaxDupRows)}

\* Two float columns, equal or equal once rounded.
FloatPairs ==
    {FromRows(<<NameX, NameY>>, rows) :
        rows \in SeqsUpTo({Num(1005), Num(1000), NA} \X {Num(1005), Num(1000), NA}, MaxDupRows)}

\* Two integer columns and a float column holding the same numbers.
IntTables ==
    {FromRows(<<NameN, NameX, NameY>>, rows) :
        rows \in SeqsUpTo({Whole(1000), Whole(2000)} \X {Whole(1000), Whole(2000)}
                              \X {Num(1000), Num(1005)}, MaxDupRows)}

\* A date column: dates, other strings and missing values.
DateTables ==
    {Numbered(<<NameDate, NameN>>, vals) : vals \in SeqsUpTo({ADate, NotADate, NA}, MaxDateRows)}

\* A categorical column of up to three strings, named in first-seen order.
CatTables ==
    {Numbered(<<NameCity, NameN>>, vals) :
        vals \in {v \in SeqsUpTo({CatA, CatB, CatC}, MaxCatRows) :
                     \E k \in 0..3 : Uniq(v) = SubSeq(<<CatA, CatB, CatC>>, 1, k)}}

CatPairs == {{CatA.s, CatB.s}, {CatB.s, CatC.s}, {CatA.s, CatC.s}}
CatSims == [CatPairs -> {ScoreCutoff - 1, ScoreCutoff, 100}]

\* A column of k distinct strings, with or without a missing value, around
\* the two ends of the categorical band.
BandTables ==
    {FromRows(<<NameCity>>, [p \in 1..(k + e) |-> IF p <= k THEN <<XS(p)>> ELSE <<NA>>]) :
        k \in {CatMin, CatMin + 1, CatMax - 2, CatMax - 1, CatMax}, e \in {0, 1}}

\* More mutually similar strings than extractBests returns, one of them twice.
CliqueTables ==
    {Numbered(<<NameCity, NameN>>, [p \in 1..(k + 1) |-> IF p <= k THEN XS(p) ELSE XS(d)]) :
        k \in {MatchLimit + 1, MatchLimit + 2}, d \in 1..(MatchLimit + 2)}
CliqueSim == [pr \in {{XS(i).s, XS(j).s} : i, j \in 1..(MatchLimit + 2)} |-> 90]

NoSim == [pr \in {} |-> 0]

RowLabels(cs) == IF cs = <<>> THEN <<>> ELSE [p \in DOMAIN cs[1].vals |-> p]

\* The state of a cleaner on the table cs, at position at.
Cleaner(cs, idx, sm, r, at) ==
    /\ pc = at
    /\ run = r
    /\ cols = cs
    /\ index = idx
    /\ original_columns = Names(cs)
    /\ modified_cols = {}
    /\ removed_cols = {}
    /\ dup_removed = 0
    /\ text_cols = <<>>
    /\ cat_cols = <<>>
    /\ unique_vals = <<>>
    /\ vi = 0
    /\ changes = NoSim
    /\ processed = {}
    /\ matches = <<>>
    /\ standard = NA
    /\ fixed_cols = 0
    /\ sim = sm
    /\ input = [cols |-> cs, index |-> idx]
    /\ at4 = <<>>
    /\ at6 = <<>>
    /\ looped = {}

Init ==
    \E cs \in MixedTables \cup SameNameTables \cup TextTriples \cup FloatPairs
                \cup IntTables \cup DateTables \cup CatTables \cup BandTables \cup CliqueTables :
        \E sm \in (IF cs \in CatTables THEN CatSims
                   ELSE IF cs \in CliqueTables THEN {CliqueSim} ELSE {NoSim}) :
            Cleaner(cs, RowLabels(cs), sm, 1, "s1")

----------------------------------------------------------------------------
(* clean_data, one action per stage (step 3 per sub-pass, step 4 per       *)
(* column and per loop iteration).                                         *)

loopvars == <<unique_vals, vi, changes, processed, matches, standard>>
step4vars == <<text_cols, cat_cols, fixed_cols, at4, looped>>
framevars == <<run, original_columns, sim, input>>

\* Lines 104-107.
Step1 ==
    /\ pc = "s1"
    /\ LET kept == DropDuplicates(cols, Len(index))
       IN /\ cols' = [i \in DOMAIN cols |->
                        Col(cols[i].name, cols[i].dtype, Keep(cols[i].vals, kept))]
          /\ index' = Keep(index, kept)
          /\ dup_removed' = Len(index) - Cardinality(kept)
    /\ pc' = "s2"
    /\ UNCHANGED <<modified_cols, removed_cols, loopvars, step4vars, framevars, at6>>

Filled(cs) == {cs[i].name : i \in {j \in 1..FillUpTo(cs) : HasNA(cs[j])}}

\* Lines 109-132.
Step2 ==
    /\ pc = "s2"
    /\ FillUpTo(cols) = Len(cols)
    /\ cols' = FillMissing(cols)
    /\ modified_cols' = modified_cols \cup Filled(cols)
    /\ pc' = "s3a"
    /\ UNCHANGED <<index, removed_cols, dup_removed, loopvars, step4vars, framevars, at6>>

\* Line 114 raising: clean_data ends with the columns before the ambiguous
\* one filled.
Step2Raise ==
    /\ pc = "s2"
    /\ FillUpTo(cols) < Len(cols)
    /\ cols' = FillMissing(cols)
    /\ modified_cols' = modified_cols \cup Filled(cols)
    /\ pc' = "error"
    /\ UNCHANGED <<index, removed_cols, dup_removed, loopvars, step4vars, framevars, at6>>

\* Lines 136-144.
Step3Text ==
    /\ pc = "s3a"
    /\ text_cols' = TextCols(cols)
    /\ cols' = NormText(cols, Len(index))
    /\ modified_cols' = modified_cols \cup (IF Len(index) > 0 THEN Range(TextCols(cols)) ELSE {})
    /\ pc' = "s3b"
    /\ UNCHANGED <<index, removed_cols, dup_removed, loopvars, cat_cols, fixed_cols,
                   at4, looped, framevars, at6>>

\* Lines 146-159.
Step3Dates ==
    /\ pc = "s3b"
    /\ cols' = NormDates(cols)
    /\ modified_cols' = modified_cols \cup
          {cols[i].name : i \in {j \in DOMAIN cols : IsDateName(cols[j].name) /\ MostlyDates(cols[j])}}
    /\ pc' = "s3c"
    /\ UNCHANGED <<index, removed_cols, dup_removed, loopvars, step4vars, framevars, at6>>

\* Lines 161-166.
Step3Round ==
    /\ pc = "s3c"
    /\ cols' = RoundFloats(cols)
    /\ modified_cols' = modified_cols \cup
          {cols[i].name : i \in {j \in DOMAIN cols : cols[j].dtype = "float"}}
    /\ pc' = "s4"
    /\ UNCHANGED <<index, removed_cols, dup_removed, loopvars, step4vars, framevars, at6>>

\* Lines 168-171.
Step4Select ==
    /\ pc = "s4"
    /\ cat_cols' = SelectCategorical(cols, text_cols)
    /\ fixed_cols' = 0
    /\ at4' = cols
    /\ looped' = {}
    /\ pc' = "s4col"
    /\ UNCHANGED <<cols, index, modified_cols, removed_cols, dup_removed, loopvars,
                   text_cols, framevars, at6>>

\* Lines 173-183: the next column of cat_cols, skipped when it holds at most
\* one string other than "null".
Step4Col ==
    /\ pc = "s4col"
    /\ cat_cols # <<>>
    /\ LET uv == UniqueVals(ByName(cols, Head(cat_cols)))
       IN IF Len(uv) <= 1
          THEN /\ cat_cols' = Tail(cat_cols)
               /\ pc' = "s4col"
               /\ UNCHANGED <<loopvars, looped>>
          ELSE /\ unique_vals' = uv
               /\ vi' = 1
               /\ changes' = NoSim
               /\ processed' = {}
               /\ matches' = <<>>
               /\ looped' = looped \cup {Head(cat_cols)}
               /\ pc' = "s4val"
               /\ UNCHANGED <<cat_cols, standard>>
    /\ UNCHANGED <<cols, index, modified_cols, removed_cols, dup_removed, text_cols,
                   fixed_cols, at4, framevars, at6>>

\* Lines 185-208: one iteration of the loop over unique_vals.
Step4Val ==
    /\ pc = "s4val"
    /\ vi <= Len(unique_vals)
    /\ LET val == unique_vals[vi]
           col == ByName(cols, Head(cat_cols))
           similar == ExtractBests(val, unique_vals)
           std == IdxMax(col, similar)
       IN IF val \in processed
          THEN UNCHANGED <<changes, processed, matches, standard>>
          ELSE IF Len(similar) > 1
          THEN /\ matches' = similar
               /\ standard' = std
               /\ changes' = MapTo(changes, similar, std)
               /\ processed' = processed \cup Range(similar)
          ELSE /\ matches' = similar
               /\ UNCHANGED <<changes, processed, standard>>
    /\ vi' = vi + 1
    /\ UNCHANGED <<pc, cols, index, modified_cols, removed_cols, dup_removed, unique_vals,
                   step4vars, framevars, at6>>

\* Lines 210-214: the loop over unique_vals is over.
Step4Apply ==
    /\ pc = "s4val"
    /\ vi > Len(unique_vals)
    /\ IF DOMAIN changes # {}
       THEN /\ cols' = [i \in DOMAIN cols |->
                          IF cols[i].name = Head(cat_cols) THEN Replace(cols[i], changes)
                          ELSE cols[i]]
            /\ modified_cols' = modified_cols \cup {Head(cat_cols)}
            /\ fixed_cols' = fixed_cols + 1
       ELSE UNCHANGED <<cols, modified_cols, fixed_cols>>
    /\ cat_cols' = Tail(cat_cols)
    /\ pc' = "s4col"
    /\ UNCHANGED <<index, removed_cols, dup_removed, loopvars, text_cols, at4, looped,
                   framevars, at6>>

\* Line 216: cat_cols is exhausted.
Step4Done ==
    /\ pc = "s4col"
    /\ cat_cols = <<>>
    /\ pc' = "s5"
    /\ UNCHANGED <<cols, index, modified_cols, removed_cols, dup_removed, loopvars,
                   step4vars, framevars, at6>>

\* Lines 218-228: the constant columns are logged and kept.
Step5 ==
    /\ pc = "s5"
    /\ pc' = "s6"
    /\ UNCHANGED <<cols, index, modified_cols, removed_cols, dup_removed, loopvars,
                   step4vars, framevars, at6>>

\* Lines 230-253.
Step6 ==
    /\ pc = "s6"
    /\ cols' = DropCols(cols, ColsToDrop(cols))
    /\ removed_cols' = removed_cols \cup Range(ColsToDrop(cols))
    /\ at6' = cols
    /\ pc' = "s7"
    /\ UNCHANGED <<index, modified_cols, dup_removed, loopvars, step4vars, framevars>>

\* Lines 255-278: the candidate keys are logged.
Step7 ==
    /\ pc = "s7"
    /\ pc' = "s8"
    /\ UNCHANGED <<cols, index, modified_cols, removed_cols, dup_removed, loopvars,
                   step4vars, framevars, at6>>

\* Lines 280-301: the counts are logged and self.df is returned.
Step8 ==
    /\ pc = "s8"
    /\ pc' = "done"
    /\ UNCHANGED <<cols, index, modified_cols, removed_cols, dup_removed, loopvars,
                   step4vars, framevars, at6>>

\* FDCleaner(df=cleaned).clean_data(): a fresh cleaner on the returned table.
\* The constructor copies the table and standardizes its column names.
Rerun ==
    /\ pc = "done"
    /\ run = 1
    /\ LET names == StandardizeNames(Names(cols))
           cs == [i \in DOMAIN cols |-> Col(names[i], cols[i].dtype, cols[i].vals)]
       IN /\ cols' = cs
          /\ input' = [cols |-> cs, index |-> index]
    /\ original_columns' = Names(cols)
    /\ run' = 2
    /\ pc' = "s1"
    /\ modified_cols' = {}
    /\ removed_cols' = {}
    /\ dup_removed' = 0
    /\ text_cols' = <<>>
    /\ cat_cols' = <<>>
    /\ unique_vals' = <<>>
    /\ vi' = 0
    /\ changes' = NoSim
    /\ processed' = {}
    /\ matches' = <<>>
    /\ standard' = NA
    /\ fixed_cols' = 0
    /\ at4' = <<>>
    /\ at6' = <<>>
    /\ looped' = {}
    /\ UNCHANGED <<index, sim>>

Next ==
    \/ Step1 \/ Step2 \/ Step2Raise
    \/ Step3Text \/ Step3Dates \/ Step3Round
    \/ Step4Select \/ Step4Col \/ Step4Val \/ Step4Apply \/ Step4Done
    \/ Step5 \/ Step6 \/ Step7 \/ Step8
    \/ Rerun

Spec == Init /\ [][Next]_vars

----------------------------------------------------------------------------
(* The constructor on a list of raw column names.                          *)

RawNames ==
    { <<"a">>, <<"A">>, <<"a", " ">>, <<"a", "_", "1">>, <<"A", " ", " ", "b">>,
      <<"a", "_", "b">>, <<"!">>, <<"_", "1">> }

InitNames ==
    \E raw \in SeqsUpTo(RawNames, MaxNames) :
        Cleaner([i \in DOMAIN raw |-> Col(raw[i], "object", <<>>)], <<>>, NoSim, 1, "new")

\* Lines 55-60: original_columns is kept and the names are standardized.
Construct ==
    /\ pc = "new"
    /\ LET names == StandardizeNames(Names(cols))
           cs == [i \in DOMAIN cols |-> Col(names[i], cols[i].dtype, cols[i].vals)]
       IN /\ cols' = cs
          /\ input' = [cols |-> cs, index |-> index]
    /\ pc' = "s1"
    /\ UNCHANGED <<run, index, original_columns, modified_cols, removed_cols, dup_removed,
                   loopvars, step4vars, sim, at6>>

NextNames == Construct

SpecNames == InitNames /\ [][NextNames]_vars

----------------------------------------------------------------------------
(* Properties.                                                             *)

\* The position in the table the cleaner was constructed on of the row
\* labelled l.
InputPos(l) == CHOOSE q \in DOMAIN input.index : input.index[q] = l

CanonicalChars == Letters \cup Range(Digits) \cup {"_"}

\* ^[a-z0-9_]+$
IsCanonicalName(nm) == nm # <<>> /\ \A i \in DOMAIN nm : nm[i] \in CanonicalChars

\* C1: after standardize_column_names the column names are pairwise
\* distinct and each matches ^[a-z0-9_]+$, whatever the raw names were
\* (repeated raw names, empty canonical forms and canonical forms that
\* already end in a numeric suffix included).
C1_NamesDistinctAndCanonical ==
    pc = "s1" =>
        /\ Distinct(Names(cols))
        /\ \A i \in DOMAIN cols : IsCanonicalName(cols[i].name)

\* C2: a fresh cleaner run on the table clean_data returned removes no row,
\* removes no column and rewrites no cell.
C2_SecondRunFixedPoint ==
    (pc = "done" /\ run = 2) =>
        /\ index = input.index
        /\ Names(cols) = Names(input.cols)
        /\ \A i \in DOMAIN cols : cols[i].vals = input.cols[i].vals

\* C3: within the pass over one column, a value that changes maps to a
\* canonical value keeps that canonical value: no later cluster of the pass
\* maps it to a different one.
C3_AbsorbedOnce ==
    [][\A v \in DOMAIN changes : v \in DOMAIN changes' => changes'[v] = changes[v]]_vars

\* C7: after the Standardize Formats stage every cell of a column that was
\* given as a floating-point column (and is not a date candidate) holds the
\* given value rounded to 2 decimal places, or "null" where the value was
\* missing.
C7_FloatsRounded ==
    pc = "s4" =>
        \A i \in DOMAIN input.cols :
            (input.cols[i].dtype = "float" /\ ~IsDateName(input.cols[i].name)) =>
                \A p \in DOMAIN index :
                    LET given == input.cols[i].vals[InputPos(index[p])]
                    IN cols[i].vals[p] =
                          IF IsNA(given) THEN NULL ELSE Num(Round2(given.n))

\* C8: the date sub-pass rewrites a date-candidate column iff more than 80%
\* of its cells other than "null" parse as dates; it then rewrites exactly
\* the cells that parse, to YYYY-MM-DD, and otherwise leaves the column as
\* it was.
C8_DateRewriteRule ==
    [][pc = "s3b" =>
         \A i \in DOMAIN cols :
             IsDateName(cols[i].name) =>
                 LET vals == cols[i].vals
                     given == {p \in DOMAIN vals : vals[p] # NULL}
                     ok == {p \in given : ToDatetime(vals[p]) # NaT}
                     rewrite == 5 * Cardinality(ok) > 4 * Cardinality(given)
                 IN cols'[i].vals =
                       [p \in DOMAIN vals |->
                           IF rewrite /\ p \in ok
                           THEN Txt(Strftime(ToDatetime(vals[p])))
                           ELSE vals[p]]]_vars

\* C10: a text column goes through the fuzzy loop of the Value Consolidator
\* iff the number d of its distinct values other than "null" satisfies
\* 1 < d < 50.
C10_CategoricalBand ==
    pc = "s5" =>
        \A nm \in Range(text_cols) :
            LET given == {v \in Range(ByName(at4, nm).vals) : v # NULL}
            IN (\A v \in given : IsStr(v)) =>
                  (nm \in looped <=> (1 < Cardinality(given) /\ Cardinality(given) < 50))

\* Rows q and r of the table the cleaner was constructed on hold the same
\* value in every column.
SameInputRow(q, r) ==
    \A c \in DOMAIN input.cols : input.cols[c].vals[q] = input.cols[c].vals[r]

InputDuplicate(q) == \E r \in 1..(q - 1) : SameInputRow(q, r)

\* C4: from stage 1 on, the rows of the table are the given rows that are not
\* value-identical in all columns to an earlier row, in their given order;
\* the row count is the given one minus the duplicates stage 1 reports, and
\* no later stage changes it.
C4_RowsAreFirstOccurrences ==
    pc \notin {"new", "s1"} =>
        /\ \A q \in DOMAIN input.index :
              input.index[q] \in Range(index) <=> ~InputDuplicate(q)
        /\ \A a, b \in DOMAIN index : a < b => InputPos(index[a]) < InputPos(index[b])
        /\ Len(index) <= Len(input.index)
        /\ dup_removed = Cardinality({q \in DOMAIN input.index : InputDuplicate(q)})
        /\ Len(index) = Len(input.index) - dup_removed
        /\ \A c \in DOMAIN cols : Len(cols[c].vals) = Len(index)
        /\ pc = "s2" =>
              \A c \in DOMAIN cols : \A p \in DOMAIN index :
                  cols[c].vals[p] = input.cols[c].vals[InputPos(index[p])]

\* A run that returned with a duplicate removed and a row kept after it.
C4_Witness ==
    /\ pc = "done"
    /\ dup_removed > 0
    /\ \E p \in DOMAIN index : InputPos(index[p]) > p

BeforeStep6 == {"s1", "s2", "s3a", "s3b", "s3c", "s4", "s4col", "s4val", "s5", "s6", "error"}
AfterStep6 == {"s7", "s8", "done"}

\* C5: no stage before Remove Redundant Columns changes the columns of the
\* table; after it the columns are the given ones without removed_cols, and
\* every column of removed_cols held, row for row, the values of an earlier
\* column that was kept: missing values alone never remove a column.
C5_ColumnsOnlyLeaveAsDuplicates ==
    /\ pc \in BeforeStep6 => (Names(cols) = Names(input.cols) /\ removed_cols = {})
    /\ pc \in AfterStep6 =>
          /\ Names(cols) = SelectSeq(Names(input.cols), LAMBDA nm : nm \notin removed_cols)
          /\ removed_cols \subseteq Range(Names(input.cols))
          /\ \A j \in DOMAIN at6 :
                at6[j].name \in removed_cols =>
                    \E i \in 1..(j - 1) :
                        /\ at6[i].name \notin removed_cols
                        /\ at6[i].vals = at6[j].vals

\* A run that returned with a column removed and a kept column that holds
\* nothing but "null".
C5_Witness ==
    /\ pc = "done"
    /\ removed_cols # {}
    /\ \E i \in DOMAIN cols :
          /\ cols[i].vals # <<>>
          /\ \A p \in DOMAIN cols[i].vals : cols[i].vals[p] = NULL

\* C6: after Remove Redundant Columns, of the columns that held the same
\* values in every row exactly the leftmost is still in the table, unchanged,
\* and the later ones are dropped and in removed_cols; no two columns of the
\* table hold the same values in every row.
C6_LeftmostOfIdenticalKept ==
    pc \in AfterStep6 =>
        /\ \A j \in DOMAIN at6 :
              IF \E i \in 1..(j - 1) : at6[i].vals = at6[j].vals
              THEN at6[j].name \in removed_cols /\ at6[j].name \notin Range(Names(cols))
              ELSE at6[j].name \notin removed_cols /\ at6[j] \in Range(cols)
        /\ \A i, j \in DOMAIN cols : i # j => cols[i].vals # cols[j].vals
        /\ (Len(at6) = 2 /\ at6[1].vals = at6[2].vals) => Cardinality(removed_cols) = 1

\* A run that returned with two of three identical, non-empty columns removed.
C6_Witness ==
    /\ pc = "done"
    /\ Len(index) > 0
    /\ Len(at6) = 3
    /\ Cardinality(removed_cols) = 2

\* The value the loop over unique_vals is at and the column it belongs to.
CurVal == unique_vals[vi]
CurCol == ByName(cols, Head(cat_cols))

\* The place of a distinct value in the first-seen order.
SeenAt(w) == CHOOSE i \in DOMAIN unique_vals : unique_vals[i] = w

\* u comes before w in the list of matches of the current value: by the better
\* score, by the first-seen order at equal scores.
Before(u, w) ==
    \/ Score(CurVal, u) > Score(CurVal, w)
    \/ Score(CurVal, u) = Score(CurVal, w) /\ SeenAt(u) < SeenAt(w)

\* The match set of the current value: the MatchLimit best of the distinct
\* values that score ScoreCutoff or more against it.
MatchSet ==
    LET above == {w \in Range(unique_vals) : Score(CurVal, w) >= ScoreCutoff}
    IN {w \in above : Cardinality({u \in above : Before(u, w)}) < MatchLimit}

\* The loop handles a value that is not processed and has other matches.
ClusterStep ==
    /\ pc = "s4val"
    /\ vi <= Len(unique_vals)
    /\ vi' = vi + 1
    /\ CurVal \notin processed
    /\ Cardinality(MatchSet) > 1

\* The canonical value is a member of the match set with the highest count
\* in the column, and the step maps every other member to it.
MostFrequentChosen ==
    /\ standard' \in MatchSet
    /\ \A w \in MatchSet : Count(CurCol, w) <= Count(CurCol, standard')
    /\ \A w \in MatchSet \ {standard'} : w \in DOMAIN changes' /\ changes'[w] = standard'

\* The members of the match set that share the highest count.
Tied == {w \in MatchSet \ {standard'} : Count(CurCol, w) = Count(CurCol, standard')}

====
